---- MODULE Spec2Model ----
(***************************************************************************)
(* RateLimiter of Projects/Downloader/grabber/ratelimit.py.                *)
(*                                                                         *)
(* Encodings.  Optional[int] is a sequence: <<>> is Python's None, <<x>>   *)
(* is the integer x.  A float is an exact rational <<n, d>> with d > 0 in  *)
(* lowest terms.  A str is a sequence of one-character strings.  A header  *)
(* mapping is the set of its items(), pairs <<key, value>>.                *)
(***************************************************************************)
EXTENDS Integers, Sequences, FiniteSets, TLC

VARIABLES
    safe_margin,            \* self.safe_margin (rational)
    min_rps_threshold,      \* self.min_rps_threshold (rational)
    fallback_max_rpm,       \* self.fallback_max_rpm (integer)
    _used,                  \* self._used: Optional[int]
    _remaining,             \* self._remaining: Optional[int]
    _reset_seconds,         \* self._reset_seconds: Optional[int]
    _last_header_time,      \* self._last_header_time (clock ticks)
    _missing_headers_count, \* self._missing_headers_count
    now,                    \* time.time(), in clock ticks
    call,                   \* the call made in the last step: [op, headers]
    ret,                    \* what that call returned (None, or snapshot's dict)
    paused,                 \* None, or <<p>>: that call paused its caller, p = [by, seconds]
    log,                    \* None, or <<record>>: the log record the last call emitted
    valid_seen,             \* history: some call passed all three headers, each an integer
    raised,                 \* None, or <<name>>: the exception the last call let escape
    update_called,          \* history: update_from_headers has been called
    ctor_args,              \* the arguments the limiter was constructed with
    regime,                 \* how the callers share the limiter (see Tasks)
    lock,                   \* the callers' mutex: None, or <<t>> when task t holds it
    task                    \* per caller: pc, headers in hand, pause computed and left

vars == <<safe_margin, min_rps_threshold, fallback_max_rpm, _used, _remaining,
          _reset_seconds, _last_header_time, _missing_headers_count, now, call,
          ret, paused, log, valid_seen, raised, update_called, ctor_args,
          regime, lock, task>>

config == <<safe_margin, min_rps_threshold, fallback_max_rpm>>
limiter_state == <<_used, _remaining, _reset_seconds, _last_header_time,
                   _missing_headers_count>>
history == <<valid_seen, update_called>>
tasking == <<regime, lock, task>>

(***************************************************************************)
(* Bounds of the model.                                                    *)
(***************************************************************************)
MaxClock == 1
MaxMissing == 2
MaxCycles == 1
MaxStreak == 11

\* the longest run of failed updates explored: MaxStreak where one caller
\* makes long runs of them (regime "streak"), MaxMissing elsewhere
MissingCap == IF regime = "streak" THEN MaxStreak ELSE MaxMissing

(***************************************************************************)
(* Python values.                                                          *)
(***************************************************************************)
None == <<>>
Some(x) == <<x>>

RECURSIVE GCD(_, _)
GCD(a, b) == IF b = 0 THEN a ELSE GCD(b, a % b)

Abs(x) == IF x < 0 THEN -x ELSE x

\* the float n/d, d # 0
Rat(n, d) ==
    LET g == GCD(Abs(n), Abs(d))
        s == IF d < 0 THEN -1 ELSE 1
    IN  <<(s * n) \div g, (s * d) \div g>>

FromInt(i) == <<i, 1>>
RAdd(a, b) == Rat(a[1] * b[2] + b[1] * a[2], a[2] * b[2])
RSub(a, b) == Rat(a[1] * b[2] - b[1] * a[2], a[2] * b[2])
RMul(a, b) == Rat(a[1] * b[1], a[2] * b[2])
RDiv(a, b) == Rat(a[1] * b[2], a[2] * b[1])
\* float('nan') and float('inf'): every comparison with NaN is False
NaN == <<0, 0>>
Inf == <<1, 0>>
RLess(a, b) == a[1] * b[2] < b[1] * a[2]
RLeq(a, b) == a # NaN /\ b # NaN /\ a[1] * b[2] <= b[1] * a[2]
RMin(a, b) == IF RLess(b, a) THEN b ELSE a
RMax(a, b) == IF RLess(a, b) THEN b ELSE a

\* f"{x:.2f}" of x >= 0: the number of hundredths, ties to even
Format2f(x) ==
    LET n == 100 * x[1]
        q == n \div x[2]
        r == n % x[2]
    IN  IF 2 * r < x[2] THEN q
        ELSE IF 2 * r > x[2] THEN q + 1
        ELSE IF q % 2 = 0 THEN q ELSE q + 1

(***************************************************************************)
(* int(str): surrounding whitespace is stripped, one optional sign, then   *)
(* decimal digits with single underscores allowed between digits.          *)
(***************************************************************************)
Whitespace == {" "}
DigitValue == ("0" :> 0) @@ ("1" :> 1) @@ ("2" :> 2) @@ ("3" :> 3) @@ ("4" :> 4) @@
              ("5" :> 5) @@ ("6" :> 6) @@ ("7" :> 7) @@ ("8" :> 8) @@ ("9" :> 9)
Digit == DOMAIN DigitValue

RECURSIVE lstrip(_)
lstrip(s) == IF s # <<>> /\ Head(s) \in Whitespace THEN lstrip(Tail(s)) ELSE s

RECURSIVE rstrip(_)
rstrip(s) ==
    IF s # <<>> /\ s[Len(s)] \in Whitespace THEN rstrip(SubSeq(s, 1, Len(s) - 1)) ELSE s

strip(s) == rstrip(lstrip(s))

RECURSIVE DecimalValue(_, _)
DecimalValue(s, acc) ==
    IF s = <<>> THEN acc
    ELSE IF Head(s) = "_" THEN DecimalValue(Tail(s), acc)
    ELSE DecimalValue(Tail(s), 10 * acc + DigitValue[Head(s)])

\* [ok |-> TRUE, val |-> n], or ok = FALSE where Python raises ValueError
int(v) ==
    LET t == strip(v)
        signed == t # <<>> /\ Head(t) \in {"+", "-"}
        body == IF signed THEN Tail(t) ELSE t
        wellformed ==
            /\ body # <<>>
            /\ \A i \in 1..Len(body) :
                  \/ body[i] \in Digit
                  \/ /\ body[i] = "_"
                     /\ 1 < i /\ i < Len(body)
                     /\ body[i - 1] \in Digit /\ body[i + 1] \in Digit
        mag == DecimalValue(body, 0)
    IN  IF wellformed
        THEN [ok |-> TRUE, val |-> IF signed /\ Head(t) = "-" THEN -mag ELSE mag]
        ELSE [ok |-> FALSE, val |-> 0]

(***************************************************************************)
(* Header mappings.                                                        *)
(***************************************************************************)
\* a lookup that forgets to lower-case the names
lower_identity(k) == k

\* str.lower() on the header names that occur
lower(k) ==
    CASE k = "X-Ratelimit-Used" -> "x-ratelimit-used"
      [] k = "X-Ratelimit-Remaining" -> "x-ratelimit-remaining"
      [] k = "X-Ratelimit-Reset" -> "x-ratelimit-reset"
      [] k = "Content-Type" -> "content-type"
      [] k = "X-RATELIMIT-USED" -> "x-ratelimit-used"
      [] k = "X-RATELIMIT-REMAINING" -> "x-ratelimit-remaining"
      [] k = "X-RATELIMIT-RESET" -> "x-ratelimit-reset"
      [] OTHER -> k

\* dict.get(key, default)
get(m, key, default) ==
    IF \E p \in m : p[1] = key
    THEN (CHOOSE p \in m : p[1] = key)[2]
    ELSE default

(***************************************************************************)
(* Inputs: the header maps a caller passes, with the names spelled the way *)
(* the upstream API (and the tests) spell them.  WellFormedMaps carry all  *)
(* three headers with integer values; DegradedMaps are one well-formed map *)
(* with each header kept, dropped or replaced by a non-integer string;     *)
(* SpelledMaps are that map with lower-case names and with a header the    *)
(* limiter does not read.                                                  *)
(***************************************************************************)
Absent == <<"absent">>

UsedValues == {<<"0">>, <<"5", "9", "5">>}
RemainingValues == {<<"-", "1">>, <<"0">>, <<"1">>, <<"2">>, <<"5">>, <<"6", "0", "0">>}
ResetValues == {<<"-", "1">>, <<"1">>, <<"1", "0">>, <<"6", "0">>, <<"6", "0", "0">>}

Item(key, v) == IF v = Absent THEN {} ELSE {<<key, v>>}

HeaderMap(u, r, s) ==
    Item("X-Ratelimit-Used", u) \cup Item("X-Ratelimit-Remaining", r)
        \cup Item("X-Ratelimit-Reset", s)

WellFormedMaps ==
    {HeaderMap(u, r, s) : u \in UsedValues, r \in RemainingValues, s \in ResetValues}

DegradedMaps ==
    {HeaderMap(u, r, s) : u \in {<<"5", "9", "5">>, Absent, <<"x">>},
                          r \in {<<"5">>, Absent, <<"1", ".", "5">>},
                          s \in {<<"6", "0">>, Absent, <<>>}}

SpelledMaps ==
    { {<<"x-ratelimit-used", <<"5", "9", "5">>>>, <<"x-ratelimit-remaining", <<"5">>>>,
       <<"x-ratelimit-reset", <<"6", "0">>>>},
      HeaderMap(<<"5", "9", "5">>, <<"5">>, <<"6", "0">>)
          \cup {<<"Content-Type", <<"j", "s", "o", "n">>>>} }

HeaderMaps == WellFormedMaps \cup DegradedMaps \cup SpelledMaps

\* the three header names in three letter cases
Spelling ==
    [title |-> <<"X-Ratelimit-Used", "X-Ratelimit-Remaining", "X-Ratelimit-Reset">>,
     lower |-> <<"x-ratelimit-used", "x-ratelimit-remaining", "x-ratelimit-reset">>,
     upper |-> <<"X-RATELIMIT-USED", "X-RATELIMIT-REMAINING", "X-RATELIMIT-RESET">>]

\* the header map with the values u, r, s under the names of one spelling
Spell(style, u, r, s) ==
    Item(Spelling[style][1], u) \cup Item(Spelling[style][2], r)
        \cup Item(Spelling[style][3], s)

\* value triples that parse, fail at the second header, fail at the first,
\* and lack the third
CaseTriples ==
    {<<<<"5", "9", "5">>, <<"5">>, <<"6", "0">>>>,
     <<<<"0">>, <<"1", ".", "5">>, <<"6", "0", "0">>>>,
     <<<<"x">>, <<"5">>, <<"6", "0">>>>,
     <<<<"0">>, <<"6", "0", "0">>, Absent>>}

CaseMaps ==
    {Spell(style, v[1], v[2], v[3]) : style \in DOMAIN Spelling, v \in CaseTriples}

\* quota values around the decision's case boundaries
DecisionRemaining == {<<"-", "1">>, <<"0">>, <<"1">>, <<"2">>, <<"3">>, <<"5">>,
                      <<"1", "6">>, <<"6", "0", "0">>}
DecisionReset == {<<"-", "1">>, <<"0">>, <<"1">>, <<"2">>, <<"1", "0">>, <<"6", "0">>,
                  <<"6", "0", "0">>}
DecisionMaps ==
    {HeaderMap(<<"0">>, r, s) : r \in DecisionRemaining, s \in DecisionReset}

\* configurations inside the clamps' ranges, the bounds included
DecisionArgs ==
    {Rat(1, 10), Rat(1, 2), Rat(8, 10), Rat(95, 100)}
        \X {Rat(1, 10), Rat(7, 10), Rat(1, 1), Rat(3, 1)} \X {12, 60}

\* every header map some specification passes to update_from_headers
AllMaps == HeaderMaps \cup CaseMaps \cup DecisionMaps

\* the constructor's arguments: <<safe_margin, min_rps_threshold, fallback_max_rpm>>
DefaultArgs == <<Rat(8, 10), Rat(1, 1), 60>>
CtorArgs == {DefaultArgs, <<Rat(5, 1), Rat(1, 20), 0>>}

\* argument values below, on, inside and above each clamp's bounds
SafeMarginArgs == {NaN, Rat(-1, 1), Rat(1, 20), Rat(1, 10), Rat(1, 2), Rat(8, 10),
                   Rat(95, 100), Rat(5, 1), Inf}
MinRpsArgs == {NaN, Rat(-1, 1), Rat(1, 20), Rat(1, 10), Rat(1, 1), Rat(3, 1)}
FallbackRpmArgs == {-5, 0, 1, 60, 120}
WideCtorArgs == SafeMarginArgs \X MinRpsArgs \X FallbackRpmArgs

\* the constructor storing its arguments as given
__init___unclamped(a_safe_margin, a_min_rps_threshold, a_fallback_max_rpm) ==
    /\ safe_margin = a_safe_margin
    /\ min_rps_threshold = a_min_rps_threshold
    /\ fallback_max_rpm = a_fallback_max_rpm
    /\ _used = None
    /\ _remaining = None
    /\ _reset_seconds = None
    /\ _last_header_time = 0
    /\ _missing_headers_count = 0

(***************************************************************************)
(* RateLimiter.__init__                                                    *)
(***************************************************************************)
__init__(a_safe_margin, a_min_rps_threshold, a_fallback_max_rpm) ==
    /\ safe_margin = RMax(Rat(1, 10), RMin(a_safe_margin, Rat(95, 100)))
    /\ min_rps_threshold = RMax(Rat(1, 10), a_min_rps_threshold)
    /\ fallback_max_rpm = IF a_fallback_max_rpm > 1 THEN a_fallback_max_rpm ELSE 1
    /\ _used = None
    /\ _remaining = None
    /\ _reset_seconds = None
    /\ _last_header_time = 0
    /\ _missing_headers_count = 0

_max_sleep_warning_threshold == Rat(5, 1)

\* a warning threshold of one more failed update
MissingHeadersWarning_late == 10 + 1

MissingHeadersWarning == 10

\* the callers of the concurrent regimes, and a caller between two calls
Tasks == {"t1", "t2"}
IdleTask == [pc |-> "idle", headers |-> {}, sleep_time |-> None, timer |-> None,
             slept |-> None, cycles |-> 0]

\* a limiter just constructed from the arguments a, nothing called yet
Constructed(a) ==
    /\ ctor_args = a
    /\ __init__(a[1], a[2], a[3])
    /\ now = 0
    /\ call = [op |-> "__init__", headers |-> {}]
    /\ ret = None
    /\ paused = None
    /\ log = None
    /\ raised = None
    /\ valid_seen = FALSE
    /\ update_called = FALSE
    /\ lock = None
    /\ task = [t \in Tasks |-> IdleTask]

Init ==
    /\ \E a \in CtorArgs : Constructed(a)
    /\ regime = "sequential"

(***************************************************************************)
(* RateLimiter.update_from_headers                                         *)
(***************************************************************************)
\* {k.lower(): v for k, v in headers.items()}
LoweredMap(headers) == {<<lower(p[1]), p[2]>> : p \in headers}

\* the three int(header_map.get(name, '0')) of the try body
parse_headers(headers) ==
    LET header_map == LoweredMap(headers)
    IN  [used |-> int(get(header_map, "x-ratelimit-used", <<"0">>)),
         remaining |-> int(get(header_map, "x-ratelimit-remaining", <<"0">>)),
         reset |-> int(get(header_map, "x-ratelimit-reset", <<"0">>))]

\* parse_headers, evaluated once for every header map of the input universe
Parsed == [h \in AllMaps |-> parse_headers(h)]

\* update_from_headers discarding the stored quota when the headers do not parse
update_from_headers_discarding(headers) ==
    LET u == Parsed[headers].used
        r == Parsed[headers].remaining
        s == Parsed[headers].reset
    IN  /\ _last_header_time' = now
        /\ IF u.ok /\ r.ok /\ s.ok
           THEN /\ _used' = Some(u.val)
                /\ _remaining' = Some(r.val)
                /\ _reset_seconds' = Some(s.val)
                /\ _missing_headers_count' = 0
                /\ log' = Some([level |-> "debug", msg |-> "Rate limit update"])
           ELSE /\ _missing_headers_count < MissingCap
                /\ _used' = None
                /\ _remaining' = None
                /\ _reset_seconds' = None
                /\ _missing_headers_count' = _missing_headers_count + 1
                /\ log' = None
        /\ ret' = None
        /\ paused' = None
        /\ raised' = None

\* the exception int() raises on a str that is no integer literal
IntError == "ValueError"

\* an except clause that names TypeError only
Caught_type_error_only == {"TypeError"}

\* except (ValueError, TypeError)
Caught == {"ValueError", "TypeError"}

\* The try body runs its three assignments in order; the first int() that
\* raises ValueError leaves the assignments before it done and goes to except.
update_from_headers(headers) ==
    LET u == Parsed[headers].used
        r == Parsed[headers].remaining
        s == Parsed[headers].reset
    IN  /\ _last_header_time' = now
        /\ _used' = IF u.ok THEN Some(u.val) ELSE _used
        /\ _remaining' = IF u.ok /\ r.ok THEN Some(r.val) ELSE _remaining
        /\ _reset_seconds' = IF u.ok /\ r.ok /\ s.ok THEN Some(s.val) ELSE _reset_seconds
        /\ IF u.ok /\ r.ok /\ s.ok
           THEN /\ _missing_headers_count' = 0
                /\ log' = Some([level |-> "debug", msg |-> "Rate limit update"])
                /\ raised' = None
           ELSE IF IntError \in Caught
           THEN /\ _missing_headers_count < MissingCap
                /\ _missing_headers_count' = _missing_headers_count + 1
                /\ log' = IF _missing_headers_count' >= MissingHeadersWarning
                          THEN Some([level |-> "warning", msg |-> "Missing rate limit headers"])
                          ELSE None
                /\ raised' = None
           ELSE /\ UNCHANGED _missing_headers_count
                /\ log' = None
                /\ raised' = Some(IntError)
        /\ ret' = None
        /\ paused' = None

\* the header map has all three quota headers, each parseable as an integer
AllParseable(headers) ==
    \A key \in {"x-ratelimit-used", "x-ratelimit-remaining", "x-ratelimit-reset"} :
        /\ \E p \in LoweredMap(headers) : p[1] = key
        /\ int(get(LoweredMap(headers), key, <<>>)).ok

\* AllParseable, evaluated once for every header map of the input universe
Valid == [h \in AllMaps |-> AllParseable(h)]

\* a caller passes one of the header maps of `maps`
UpdateFrom(maps) ==
    \E headers \in maps :
        /\ update_from_headers(headers)
        /\ call' = [op |-> "update_from_headers", headers |-> headers]
        /\ valid_seen' = (valid_seen \/ Valid[headers])
        /\ update_called' = TRUE
        /\ UNCHANGED <<config, now, ctor_args, tasking>>

UpdateFromHeaders == UpdateFrom(HeaderMaps)

(***************************************************************************)
(* RateLimiter._calculate_sleep_time: <<sleep_seconds, reason>>, a pure    *)
(* function of _remaining, _reset_seconds and the configuration.           *)
(***************************************************************************)
\* safe_rps without the safety margin
safe_rps_no_margin(remaining, reset_seconds) ==
    Rat(remaining, reset_seconds)

\* (self._remaining / self._reset_seconds) * self.safe_margin
safe_rps(remaining, reset_seconds) ==
    RMul(Rat(remaining, reset_seconds), safe_margin)

\* case 1 with the quotient taken the other way round
fallback_sleep_inverted ==
    <<Rat(fallback_max_rpm, 60), <<"fallback rate limiting">>>>

\* case 1: 60.0 / self.fallback_max_rpm
fallback_sleep ==
    <<Rat(60, fallback_max_rpm), <<"fallback rate limiting">>>>

\* case 3's test: remaining > reset_seconds * min_rps_threshold * 1.5
sufficient_allowance(remaining, reset_seconds) ==
    RLess(RMul(RMul(FromInt(reset_seconds), min_rps_threshold), Rat(3, 2)),
          FromInt(remaining))

\* case 4's result without the cap at reset_seconds
throttle_uncapped(remaining, reset_seconds) ==
    LET rps == safe_rps(remaining, reset_seconds)
        sleep_time == IF RLess(FromInt(0), rps)
                      THEN RDiv(FromInt(1), rps)
                      ELSE FromInt(reset_seconds)
    IN  <<sleep_time, <<"throttling to ", Format2f(rps), " req/sec">>>>

\* case 4's result, once safe_rps < min_rps_threshold
throttle(remaining, reset_seconds) ==
    LET rps == safe_rps(remaining, reset_seconds)
        sleep_time == IF RLess(FromInt(0), rps)
                      THEN RDiv(FromInt(1), rps)
                      ELSE FromInt(reset_seconds)
    IN  <<RMin(sleep_time, FromInt(reset_seconds)),
          <<"throttling to ", Format2f(rps), " req/sec">>>>

\* case 5 without the one-second buffer
wait_for_reset_no_buffer(reset_seconds) ==
    <<RMax(FromInt(1), FromInt(reset_seconds)), <<"waiting for rate limit reset">>>>

\* case 5's result: max(1, reset_seconds - 1)
wait_for_reset(reset_seconds) ==
    <<RMax(FromInt(1), FromInt(reset_seconds - 1)), <<"waiting for rate limit reset">>>>

\* the cases with the exhaustion wait (case 5) tested before the expiring window (case 2)
_calculate_sleep_time_exhaustion_first ==
    IF _remaining = None \/ _reset_seconds = None
    THEN fallback_sleep
    ELSE
    LET remaining == _remaining[1]
        reset_seconds == _reset_seconds[1]
    IN  IF remaining <= 2
        THEN wait_for_reset(reset_seconds)
        ELSE IF reset_seconds < 2
        THEN <<FromInt(0), <<"reset window expiring">>>>
        ELSE IF sufficient_allowance(remaining, reset_seconds)
        THEN <<FromInt(0), <<"sufficient request allowance">>>>
        ELSE IF /\ remaining > 0 /\ reset_seconds > 0
                /\ RLess(safe_rps(remaining, reset_seconds), min_rps_threshold)
        THEN throttle(remaining, reset_seconds)
        ELSE <<FromInt(0), <<"no throttling needed">>>>

\* the computation falling back to the fixed rate once the run of failed
\* updates has reached the warning threshold
_calculate_sleep_time_streak_fallback ==
    IF _remaining = None \/ _reset_seconds = None
           \/ _missing_headers_count >= MissingHeadersWarning
    THEN fallback_sleep
    ELSE
    LET remaining == _remaining[1]
        reset_seconds == _reset_seconds[1]
    IN  IF reset_seconds < 2
        THEN <<FromInt(0), <<"reset window expiring">>>>
        ELSE IF sufficient_allowance(remaining, reset_seconds)
        THEN <<FromInt(0), <<"sufficient request allowance">>>>
        ELSE IF /\ remaining > 0 /\ reset_seconds > 0
                /\ RLess(safe_rps(remaining, reset_seconds), min_rps_threshold)
        THEN throttle(remaining, reset_seconds)
        ELSE IF remaining <= 2
        THEN wait_for_reset(reset_seconds)
        ELSE <<FromInt(0), <<"no throttling needed">>>>

\* the body of _calculate_sleep_time on the values it reads from
\* self._remaining and self._reset_seconds
calculate_sleep_time(opt_remaining, opt_reset_seconds) ==
    IF opt_remaining = None \/ opt_reset_seconds = None
    THEN fallback_sleep
    ELSE
    LET remaining == opt_remaining[1]
        reset_seconds == opt_reset_seconds[1]
    IN  IF reset_seconds < 2
        THEN <<FromInt(0), <<"reset window expiring">>>>
        ELSE IF sufficient_allowance(remaining, reset_seconds)
        THEN <<FromInt(0), <<"sufficient request allowance">>>>
        ELSE IF /\ remaining > 0 /\ reset_seconds > 0
                /\ RLess(safe_rps(remaining, reset_seconds), min_rps_threshold)
        THEN throttle(remaining, reset_seconds)
        ELSE IF remaining <= 2
        THEN wait_for_reset(reset_seconds)
        ELSE <<FromInt(0), <<"no throttling needed">>>>

_calculate_sleep_time == calculate_sleep_time(_remaining, _reset_seconds)

\* the shared body warning only above the threshold, not at it
Pace_strict_threshold(primitive, what) ==
    LET sleep_time == _calculate_sleep_time[1]
        reason == _calculate_sleep_time[2]
    IN  IF RLess(FromInt(0), sleep_time)
        THEN /\ log' = Some([level |-> IF RLess(_max_sleep_warning_threshold, sleep_time)
                                       THEN "warning" ELSE "debug",
                             msg |-> <<what, sleep_time, reason>>])
             /\ paused' = Some([by |-> primitive, seconds |-> sleep_time])
        ELSE /\ log' = None
             /\ paused' = None

\* the body shared by sleep() and wait(): log, then pause through `primitive`
Pace(primitive, what) ==
    LET sleep_time == _calculate_sleep_time[1]
        reason == _calculate_sleep_time[2]
    IN  IF RLess(FromInt(0), sleep_time)
        THEN /\ log' = Some([level |-> IF RLeq(_max_sleep_warning_threshold, sleep_time)
                                       THEN "warning" ELSE "debug",
                             msg |-> <<what, sleep_time, reason>>])
             /\ paused' = Some([by |-> primitive, seconds |-> sleep_time])
        ELSE /\ log' = None
             /\ paused' = None

\* sleep() counting itself as one request against the stored quota
sleep_consuming ==
    /\ Pace("time.sleep", "Rate limit sleep")
    /\ ret' = None
    /\ raised' = None
    /\ _remaining' = IF _remaining # None /\ _remaining[1] > 0
                     THEN Some(_remaining[1] - 1) ELSE _remaining
    /\ UNCHANGED <<_used, _reset_seconds, _last_header_time, _missing_headers_count>>

\* RateLimiter.sleep
sleep ==
    /\ Pace("time.sleep", "Rate limit sleep")
    /\ ret' = None
    /\ raised' = None
    /\ UNCHANGED limiter_state

\* wait() yielding to the event loop even when the computed pause is 0
wait_always_yielding ==
    /\ log' = None
    /\ paused' = Some([by |-> "asyncio.sleep", seconds |-> _calculate_sleep_time[1]])
    /\ ret' = None
    /\ raised' = None
    /\ UNCHANGED limiter_state

\* RateLimiter.wait
wait ==
    /\ Pace("asyncio.sleep", "Rate limit wait")
    /\ ret' = None
    /\ raised' = None
    /\ UNCHANGED limiter_state

\* RateLimiter.snapshot
snapshot ==
    [used |-> _used,
     remaining |-> _remaining,
     reset_seconds |-> _reset_seconds,
     last_updated |-> _last_header_time,
     missing_headers_count |-> _missing_headers_count]

Sleep ==
    /\ sleep
    /\ call' = [op |-> "sleep", headers |-> {}]
    /\ UNCHANGED <<config, now, history, ctor_args, tasking>>

Wait ==
    /\ wait
    /\ call' = [op |-> "wait", headers |-> {}]
    /\ UNCHANGED <<config, now, history, ctor_args, tasking>>

Snapshot ==
    /\ ret' = Some(snapshot)
    /\ paused' = None
    /\ log' = None
    /\ raised' = None
    /\ call' = [op |-> "snapshot", headers |-> {}]
    /\ UNCHANGED <<limiter_state, config, now, history, ctor_args, tasking>>

\* the wall clock advances between calls
Tick ==
    /\ now < MaxClock
    /\ now' = now + 1
    /\ call' = [op |-> "none", headers |-> {}]
    /\ ret' = None
    /\ paused' = None
    /\ log' = None
    /\ raised' = None
    /\ UNCHANGED <<limiter_state, config, history, ctor_args, tasking>>

Next == UpdateFromHeaders \/ Sleep \/ Wait \/ Snapshot \/ Tick

Spec == Init /\ [][Next]_vars

(***************************************************************************)
(* The same operations on limiters constructed from the wide argument set, *)
(* with the two header maps of SpelledMaps as the updates.                 *)
(***************************************************************************)
InitCtor ==
    /\ \E a \in WideCtorArgs : Constructed(a)
    /\ regime = "sequential"

UpdateFromSpelled == UpdateFrom(SpelledMaps)

NextCtor == UpdateFromSpelled \/ Sleep \/ Wait \/ Snapshot \/ Tick

SpecCtor == InitCtor /\ [][NextCtor]_vars

(***************************************************************************)
(* The same operations with the header maps of CaseMaps as the updates.    *)
(***************************************************************************)
InitCase ==
    /\ \E a \in CtorArgs : Constructed(a)
    /\ regime = "sequential"

UpdateFromCase == UpdateFrom(CaseMaps)

NextCase == UpdateFromCase \/ Sleep \/ Wait \/ Snapshot \/ Tick

SpecCase == InitCase /\ [][NextCase]_vars

(***************************************************************************)
(* The pacing decision over many configurations and stored quotas: updates *)
(* from DecisionMaps, each followed by any number of sleep() and wait().   *)
(***************************************************************************)
InitDecision ==
    /\ \E a \in DecisionArgs : Constructed(a)
    /\ regime = "sequential"

UpdateFromDecision == UpdateFrom(DecisionMaps)

NextDecision == UpdateFromDecision \/ Sleep \/ Wait

SpecDecision == InitDecision /\ [][NextDecision]_vars

(***************************************************************************)
(* One caller making long runs of failed updates: a valid map, one that    *)
(* fails at the first header and one that stores used = 0 and then fails.  *)
(***************************************************************************)
StreakMaps ==
    {HeaderMap(<<"5", "9", "5">>, <<"5">>, <<"6", "0">>),
     HeaderMap(<<"x">>, <<"5">>, <<"6", "0">>),
     HeaderMap(Absent, <<"1", ".", "5">>, <<"6", "0">>)}

InitStreak ==
    /\ \E a \in CtorArgs : Constructed(a)
    /\ regime = "streak"

UpdateFromStreak == UpdateFrom(StreakMaps)

NextStreak == UpdateFromStreak \/ Sleep \/ Wait \/ Snapshot \/ Tick

SpecStreak == InitStreak /\ [][NextStreak]_vars

(***************************************************************************)
(* Callers sharing one limiter.  Each caller of Tasks repeats the pair     *)
(* update_from_headers(headers); sleep() (or wait()), one statement of     *)
(* ratelimit.py per step.  regime = "locked": the callers are threads and  *)
(* run the pair, its pause included, holding `lock`.  regime =             *)
(* "cooperative": the callers are coroutines of one event loop, which runs *)
(* one of them at a time and switches only where a coroutine is suspended  *)
(* in asyncio.sleep.  Time is carried by the pausing callers' timers:      *)
(* Advance lets it pass up to the next expiry; time.time() readings stay   *)
(* at `now`.                                                               *)
(***************************************************************************)
\* the header maps the callers receive: two valid ones (pauses of 1.25 s
\* and 0 s under the default configuration) and one whose reset value is
\* the empty string
TaskMaps ==
    {HeaderMap(<<"0">>, <<"6", "0", "0">>, <<"6", "0", "0">>),
     HeaderMap(<<"0">>, <<"5">>, <<"1">>),
     HeaderMap(<<"5", "9", "5">>, <<"5">>, <<>>)}

InitTasks ==
    /\ Constructed(DefaultArgs)
    /\ regime \in {"locked", "cooperative"}

\* program points at which a caller is not executing limiter code
Yielded == {"idle", "paused"}

\* a mutex that excludes no one, and an event loop that preempts
Runnable_unlocked(t) == TRUE

\* caller t may execute its next statement: a thread under the mutex when no
\* other thread holds it, a thread without a mutex always, a coroutine when
\* every other coroutine is suspended or idle
Runnable(t) ==
    CASE regime = "locked" -> lock \in {None, Some(t)}
      [] regime = "threads" -> TRUE
      [] OTHER -> \A o \in Tasks \ {t} : task[o].pc \in Yielded

\* caller t moves to program point pc
Goto(t, pc) == task' = [task EXCEPT ![t].pc = pc]

\* a response arrives: t (taking the mutex first, if a thread) calls
\* update_from_headers(headers)
BeginFrom(t, maps) ==
    /\ task[t].pc = "idle"
    /\ task[t].cycles < MaxCycles
    /\ Runnable(t)
    /\ lock' = IF regime = "locked" THEN Some(t) ELSE lock
    /\ \E headers \in maps :
          /\ task' = [task EXCEPT ![t] = [pc |-> "l55", headers |-> headers,
                                          sleep_time |-> None, timer |-> None,
                                          slept |-> None, cycles |-> @.cycles + 1]]
          /\ valid_seen' = (valid_seen \/ Valid[headers])
    /\ update_called' = TRUE
    /\ UNCHANGED <<limiter_state, config, now, call, ret, paused, log, raised,
                   ctor_args, regime>>

Begin(t) == BeginFrom(t, TaskMaps)

\* lines 55-56: now = time.time(); self._last_header_time = now
L55(t) ==
    /\ task[t].pc = "l55"
    /\ Runnable(t)
    /\ _last_header_time' = now
    /\ Goto(t, "l62")
    /\ UNCHANGED <<_used, _remaining, _reset_seconds, _missing_headers_count,
                   config, now, call, ret, paused, log, raised, history,
                   ctor_args, regime, lock>>

\* line 62: self._used = int(header_map.get('x-ratelimit-used', '0'))
L62(t) ==
    /\ task[t].pc = "l62"
    /\ Runnable(t)
    /\ LET u == Parsed[task[t].headers].used
       IN  IF u.ok
           THEN _used' = Some(u.val) /\ Goto(t, "l63")
           ELSE UNCHANGED _used /\ Goto(t, "l73")
    /\ UNCHANGED <<_remaining, _reset_seconds, _last_header_time,
                   _missing_headers_count, config, now, call, ret, paused, log,
                   raised, history, ctor_args, regime, lock>>

\* line 63: self._remaining = int(header_map.get('x-ratelimit-remaining', '0'))
L63(t) ==
    /\ task[t].pc = "l63"
    /\ Runnable(t)
    /\ LET r == Parsed[task[t].headers].remaining
       IN  IF r.ok
           THEN _remaining' = Some(r.val) /\ Goto(t, "l64")
           ELSE UNCHANGED _remaining /\ Goto(t, "l73")
    /\ UNCHANGED <<_used, _reset_seconds, _last_header_time,
                   _missing_headers_count, config, now, call, ret, paused, log,
                   raised, history, ctor_args, regime, lock>>

\* line 64: self._reset_seconds = int(header_map.get('x-ratelimit-reset', '0'))
L64(t) ==
    /\ task[t].pc = "l64"
    /\ Runnable(t)
    /\ LET s == Parsed[task[t].headers].reset
       IN  IF s.ok
           THEN _reset_seconds' = Some(s.val) /\ Goto(t, "l65")
           ELSE UNCHANGED _reset_seconds /\ Goto(t, "l73")
    /\ UNCHANGED <<_used, _remaining, _last_header_time,
                   _missing_headers_count, config, now, call, ret, paused, log,
                   raised, history, ctor_args, regime, lock>>

\* line 65: self._missing_headers_count = 0; update_from_headers returns
L65(t) ==
    /\ task[t].pc = "l65"
    /\ Runnable(t)
    /\ _missing_headers_count' = 0
    /\ Goto(t, "l125")
    /\ UNCHANGED <<_used, _remaining, _reset_seconds, _last_header_time,
                   config, now, call, ret, paused, log, raised, history,
                   ctor_args, regime, lock>>

\* line 73, in the except clause: self._missing_headers_count += 1;
\* update_from_headers returns
L73(t) ==
    /\ task[t].pc = "l73"
    /\ Runnable(t)
    /\ _missing_headers_count' = _missing_headers_count + 1
    /\ Goto(t, "l125")
    /\ UNCHANGED <<_used, _remaining, _reset_seconds, _last_header_time,
                   config, now, call, ret, paused, log, raised, history,
                   ctor_args, regime, lock>>

\* lines 125 / 139: sleep_time, reason = self._calculate_sleep_time()
L125(t) ==
    /\ task[t].pc = "l125"
    /\ Runnable(t)
    /\ task' = [task EXCEPT ![t].pc = "l127",
                            ![t].sleep_time = Some(_calculate_sleep_time[1])]
    /\ UNCHANGED <<limiter_state, config, now, call, ret, paused, log, raised,
                   history, ctor_args, regime, lock>>

\* lines 127-133 / 141-147: if sleep_time > 0, enter time.sleep(sleep_time)
\* (a thread) or suspend in asyncio.sleep(sleep_time) (a coroutine)
L127(t) ==
    /\ task[t].pc = "l127"
    /\ Runnable(t)
    /\ IF RLess(FromInt(0), task[t].sleep_time[1])
       THEN task' = [task EXCEPT ![t].pc = "paused",
                                 ![t].timer = task[t].sleep_time,
                                 ![t].slept = Some(FromInt(0))]
       ELSE Goto(t, "returned")
    /\ UNCHANGED <<limiter_state, config, now, call, ret, paused, log, raised,
                   history, ctor_args, regime, lock>>

\* the callers inside a pause primitive, and those whose pause has time left
Pausing == {t \in Tasks : task[t].pc = "paused"}
Pending == {t \in Pausing : RLess(FromInt(0), task[t].timer[1])}

\* time passes until the earliest pause in progress expires
Advance ==
    /\ Pending # {}
    /\ LET delta == CHOOSE d \in {task[t].timer[1] : t \in Pending} :
                        \A t \in Pending : RLeq(d, task[t].timer[1])
       IN  task' = [t \in Tasks |->
                      IF t \in Pausing
                      THEN [task[t] EXCEPT
                               !.timer = Some(RMax(FromInt(0), RSub(@[1], delta))),
                               !.slept = Some(RAdd(@[1], delta))]
                      ELSE task[t]]
    /\ UNCHANGED <<limiter_state, config, now, call, ret, paused, log, raised,
                   history, ctor_args, regime, lock>>

\* a pause that also ends as soon as the limiter's computed sleep is 0
CanResume_recomputing(t) ==
    \/ task[t].timer = Some(FromInt(0))
    \/ _calculate_sleep_time[1] = FromInt(0)

\* time.sleep(sleep_time) / asyncio.sleep(sleep_time) is over once the
\* duration it was called with has passed
CanResume(t) == task[t].timer = Some(FromInt(0))

\* sleep() / wait() computing the pause again after each pause
AfterPause_recheck == "l125"

\* lines 133 / 147 are the method's last statement
AfterPause == "returned"

\* the pause primitive returns: the thread goes on, or the event loop runs
\* the coroutine again
Resume(t) ==
    /\ task[t].pc = "paused"
    /\ CanResume(t)
    /\ Runnable(t)
    /\ Goto(t, AfterPause)
    /\ UNCHANGED <<limiter_state, config, now, call, ret, paused, log, raised,
                   history, ctor_args, regime, lock>>

\* sleep() / wait() has returned: the pair is done (a thread releases the mutex)
End(t) ==
    /\ task[t].pc = "returned"
    /\ Runnable(t)
    /\ task' = [task EXCEPT ![t] = [IdleTask EXCEPT !.cycles = task[t].cycles]]
    /\ lock' = None
    /\ UNCHANGED <<limiter_state, config, now, call, ret, paused, log, raised,
                   history, ctor_args, regime>>

Step(t) ==
    \/ Begin(t) \/ L55(t) \/ L62(t) \/ L63(t) \/ L64(t) \/ L65(t) \/ L73(t)
    \/ L125(t) \/ L127(t) \/ End(t)

NextTasks == Advance \/ \E t \in Tasks : Step(t) \/ Resume(t)

SpecTasks == InitTasks /\ [][NextTasks]_vars

\* the clock runs, running code proceeds, and a caller whose pause is over is
\* scheduled again (a thread by the operating system, a coroutine by the
\* event loop, which runs its ready queue in order)
Fairness ==
    /\ WF_vars(Advance)
    /\ \A t \in Tasks : WF_vars(Step(t)) /\ SF_vars(Resume(t))

SpecTasksFair == SpecTasks /\ Fairness

\* threads sharing one limiter with and without a mutex around each pair,
\* every response carrying one of two valid header maps (pauses of 1.25 s
\* and 0 s under the default configuration)
ThreadMaps ==
    {HeaderMap(<<"0">>, <<"6", "0", "0">>, <<"6", "0", "0">>),
     HeaderMap(<<"5", "9", "5">>, <<"5">>, <<"1">>)}

InitThreads ==
    /\ Constructed(DefaultArgs)
    /\ regime \in {"locked", "threads"}

\* the statements a thread executes; int() accepts every value of ThreadMaps,
\* so the except clause of lines 71-79 is never entered
StepThreads(t) ==
    \/ BeginFrom(t, ThreadMaps)
    \/ L55(t) \/ L62(t) \/ L63(t) \/ L64(t) \/ L65(t)
    \/ L125(t) \/ L127(t) \/ End(t)

NextThreads == Advance \/ \E t \in Tasks : StepThreads(t) \/ Resume(t)

SpecThreads == InitThreads /\ [][NextThreads]_vars

(***************************************************************************)
(* Properties.                                                             *)
(***************************************************************************)
\* the integer each well-formed header value of the input universe denotes
Denotes ==
    (<<"-", "1">> :> -1) @@ (<<"0">> :> 0) @@ (<<"1">> :> 1) @@ (<<"2">> :> 2) @@ (<<"5">> :> 5) @@
    (<<"1", "0">> :> 10) @@ (<<"6", "0">> :> 60) @@ (<<"6", "0", "0">> :> 600) @@
    (<<"5", "9", "5">> :> 595)

DefaultConfig ==
    safe_margin = <<4, 5>> /\ min_rps_threshold = <<1, 1>> /\ fallback_max_rpm = 60

Calibrated == _remaining # None /\ _reset_seconds # None

UpdateCall(c) == c.op = "update_from_headers"

\* C1: update_from_headers with all three headers present and integer, followed
\* by snapshot(), returns exactly those three integers and
\* missing_headers_count = 0, whatever the state before the update was.
C1_ValidHeadersSnapshot ==
    [][(call'.op = "snapshot" /\ UpdateCall(call)) =>
          \A u \in UsedValues, r \in RemainingValues, s \in ResetValues :
             call.headers = HeaderMap(u, r, s)
             => /\ ret'[1].used = Some(Denotes[u])
                /\ ret'[1].remaining = Some(Denotes[r])
                /\ ret'[1].reset_seconds = Some(Denotes[s])
                /\ ret'[1].missing_headers_count = 0]_vars

\* snapshot() has returned the values of the header map (595, 5, 60)
C1_Witness ==
    /\ call.op = "snapshot"
    /\ ret # None
    /\ ret[1].used = Some(595) /\ ret[1].remaining = Some(5)
    /\ ret[1].reset_seconds = Some(60) /\ ret[1].missing_headers_count = 0

\* C2: every update_from_headers call whose header map is empty, lacks one of
\* the three headers or has a non-integer value raises missing_headers_count
\* by exactly 1.
C2_FailedUpdateCountsOne ==
    [][(UpdateCall(call') /\ ~Valid[call'.headers])
          => _missing_headers_count' = _missing_headers_count + 1]_vars

\* C3: such a failed update_from_headers call leaves the stored used, remaining
\* and reset_seconds exactly as they were.
C3_FailedUpdateKeepsValues ==
    [][(UpdateCall(call') /\ ~Valid[call'.headers])
          => UNCHANGED <<_used, _remaining, _reset_seconds>>]_vars

\* C4: used, remaining and reset_seconds are all absent, or all three are the
\* values of one header map that carries the three headers as integers.
C4_FieldsFromOneMap ==
    \/ _used = None /\ _remaining = None /\ _reset_seconds = None
    \/ \E h \in HeaderMaps :
          /\ Valid[h]
          /\ _used = Some(Parsed[h].used.val)
          /\ _remaining = Some(Parsed[h].remaining.val)
          /\ _reset_seconds = Some(Parsed[h].reset.val)

\* C5: as long as no header map with all three headers parseable has been
\* received, the sleep-time computation returns 60 / fallback_max_rpm with
\* reason 'fallback rate limiting', after any number of failed updates.
C5_FallbackUntilValid ==
    ~valid_seen =>
        _calculate_sleep_time = <<Rat(60, fallback_max_rpm), <<"fallback rate limiting">>>>

\* C6: once an update_from_headers call has succeeded, remaining and
\* reset_seconds are never absent again and the sleep-time computation never
\* returns the fallback case again, whatever calls follow.
C6_NoReverseTransition ==
    valid_seen =>
        /\ _remaining # None
        /\ _reset_seconds # None
        /\ _calculate_sleep_time[2] # <<"fallback rate limiting">>

\* a failed update_from_headers call on a limiter that was calibrated before
C6_Witness ==
    /\ valid_seen
    /\ UpdateCall(call) /\ ~Valid[call.headers]
    /\ _missing_headers_count > 0

\* C7: whenever the stored reset_seconds is below 2 the sleep-time computation
\* returns 0 with reason 'reset window expiring', for every remaining.
C7_ResetWindowFirst ==
    (_reset_seconds # None /\ _reset_seconds[1] < 2) =>
        _calculate_sleep_time = <<FromInt(0), <<"reset window expiring">>>>

\* sleep() did not pause with an exhausted quota and reset_seconds = 1
C7_Witness ==
    /\ call.op = "sleep"
    /\ _remaining = Some(0) /\ _reset_seconds = Some(1)
    /\ paused = None

\* C8 as stated: with remaining <= 2 and reset_seconds = 60 under the default
\* configuration the computation returns 59 s, 'waiting for rate limit reset'.
C8_ExhaustionWaitUpToTwo ==
    (DefaultConfig /\ Calibrated /\ _remaining[1] <= 2 /\ _reset_seconds[1] = 60) =>
        _calculate_sleep_time = <<FromInt(59), <<"waiting for rate limit reset">>>>

\* C8 amended: with reset_seconds = 60 under the default configuration,
\* remaining <= 0 returns 59 s, 'waiting for rate limit reset'; remaining 1 and
\* 2 are taken by case 4 first: min(1 / safe_rps, 60) = 60 s and 37.5 s,
\* 'throttling to 0.01' and 'throttling to 0.03' req/sec.
C8_ExhaustionWaitAtZero ==
    (DefaultConfig /\ Calibrated /\ _reset_seconds[1] = 60) =>
        /\ _remaining[1] <= 0 =>
              _calculate_sleep_time = <<FromInt(59), <<"waiting for rate limit reset">>>>
        /\ _remaining[1] = 1 =>
              _calculate_sleep_time = <<FromInt(60), <<"throttling to ", 1, " req/sec">>>>
        /\ _remaining[1] = 2 =>
              _calculate_sleep_time = <<Rat(75, 2), <<"throttling to ", 3, " req/sec">>>>

\* sleep() paused 59 s with remaining = 0 and reset_seconds = 60
C8_Witness ==
    /\ DefaultConfig
    /\ call.op = "sleep"
    /\ _remaining = Some(0) /\ _reset_seconds = Some(60)
    /\ paused = Some([by |-> "time.sleep", seconds |-> FromInt(59)])

\* C9: with reset_seconds >= 2, 0 < remaining <= reset_seconds *
\* min_rps_threshold * 1.5 and safe_rps < min_rps_threshold the computation
\* returns min(1 / safe_rps, reset_seconds) with a reason starting
\* 'throttling to'; remaining = 5, reset_seconds = 10 under the default
\* configuration gives exactly 2.5 s.
C9_ThrottleArithmetic ==
    Calibrated =>
        LET remaining == _remaining[1]
            reset_seconds == _reset_seconds[1]
            rps == RMul(Rat(remaining, reset_seconds), safe_margin)
        IN  /\ (/\ reset_seconds >= 2
                /\ remaining > 0
                /\ RLeq(FromInt(remaining),
                        RMul(RMul(FromInt(reset_seconds), min_rps_threshold), Rat(3, 2)))
                /\ RLess(rps, min_rps_threshold))
               => /\ _calculate_sleep_time[1]
                       = RMin(RDiv(FromInt(1), rps), FromInt(reset_seconds))
                  /\ Head(_calculate_sleep_time[2]) = "throttling to "
            /\ (DefaultConfig /\ remaining = 5 /\ reset_seconds = 10)
               => _calculate_sleep_time[1] = <<5, 2>>

\* sleep() paused 2.5 s with remaining = 5 and reset_seconds = 10
C9_Witness ==
    /\ DefaultConfig
    /\ call.op = "sleep"
    /\ _remaining = Some(5) /\ _reset_seconds = Some(10)
    /\ paused = Some([by |-> "time.sleep", seconds |-> <<5, 2>>])

\* C10: after a successful update with reset_seconds >= 2 and remaining >
\* reset_seconds * min_rps_threshold * 1.5 the computation returns 0,
\* 'sufficient request allowance', whatever the state before; in particular,
\* under the default configuration, the sleep is positive after
\* (used=595, remaining=5, reset=60) and 0 after a following
\* (used=0, remaining=600, reset=600).
C10_SleepFollowsLatestSnapshot ==
    [][/\ (/\ UpdateCall(call') /\ Valid[call'.headers]
           /\ _reset_seconds'[1] >= 2
           /\ RLess(RMul(RMul(FromInt(_reset_seconds'[1]), min_rps_threshold), Rat(3, 2)),
                    FromInt(_remaining'[1])))
          => _calculate_sleep_time' = <<FromInt(0), <<"sufficient request allowance">>>>
       /\ (/\ DefaultConfig
           /\ UpdateCall(call)
           /\ call.headers = HeaderMap(<<"5", "9", "5">>, <<"5">>, <<"6", "0">>)
           /\ UpdateCall(call')
           /\ call'.headers = HeaderMap(<<"0">>, <<"6", "0", "0">>, <<"6", "0", "0">>))
          => /\ RLess(FromInt(0), _calculate_sleep_time[1])
             /\ _calculate_sleep_time' = <<FromInt(0), <<"sufficient request allowance">>>>]_vars

\* C11: while update_from_headers has never been called, used, remaining and
\* reset_seconds are absent, the computed pause is 60 / fallback_max_rpm
\* seconds with reason 'fallback rate limiting' (1 second for the default 60),
\* and every sleep() and wait() pauses its caller for exactly that long.
C11_FreshLimiterFallback ==
    ~update_called =>
        /\ _used = None /\ _remaining = None /\ _reset_seconds = None
        /\ _calculate_sleep_time = <<Rat(60, fallback_max_rpm), <<"fallback rate limiting">>>>
        /\ fallback_max_rpm = 60 => _calculate_sleep_time[1] = FromInt(1)
        /\ call.op = "sleep" =>
               paused = Some([by |-> "time.sleep", seconds |-> Rat(60, fallback_max_rpm)])
        /\ call.op = "wait" =>
               paused = Some([by |-> "asyncio.sleep", seconds |-> Rat(60, fallback_max_rpm)])

\* a limiter built with fallback_max_rpm = 0 (clamped to 1) that was never
\* updated has just paused its caller in wait() for 60 seconds
C11_Witness ==
    /\ ~update_called
    /\ ctor_args[3] = 0
    /\ call.op = "wait"
    /\ paused = Some([by |-> "asyncio.sleep", seconds |-> FromInt(60)])

Primitive == ("sleep" :> "time.sleep") @@ ("wait" :> "asyncio.sleep")

\* C15: sleep() and wait() pace alike: called in the same limiter state, each
\* computes the <<duration, reason>> _calculate_sleep_time gives for that state,
\* pauses its caller for exactly that duration when it is positive (logging
\* that reason), and does not pause at all when it is 0.
C15_SleepWaitSamePacing ==
    [][call'.op \in {"sleep", "wait"} =>
          LET sleep_time == _calculate_sleep_time[1]
              reason == _calculate_sleep_time[2]
          IN  IF RLess(FromInt(0), sleep_time)
              THEN /\ paused' = Some([by |-> Primitive[call'.op], seconds |-> sleep_time])
                   /\ log' # None
                   /\ log'[1].msg[2] = sleep_time
                   /\ log'[1].msg[3] = reason
              ELSE /\ paused' = None
                   /\ log' = None]_vars

\* wait() has paused its caller for the 15 seconds of remaining 5, reset 60
C15_Witness ==
    /\ call.op = "wait"
    /\ _remaining = Some(5) /\ _reset_seconds = Some(60)
    /\ paused = Some([by |-> "asyncio.sleep", seconds |-> FromInt(15)])

\* C18: only update_from_headers changes the limiter's state: sleep(), wait(),
\* snapshot() and the computation inside them leave used, remaining,
\* reset_seconds, last_header_time and missing_headers_count as they were, and
\* snapshot() returns exactly those five values, so repeated snapshots with no
\* update in between are identical.
C18_OnlyUpdateChangesState ==
    [][~UpdateCall(call') =>
          /\ UNCHANGED limiter_state
          /\ call'.op = "snapshot" => ret' = Some(snapshot)]_vars

\* sleep() has paused its caller on a calibrated limiter whose count of
\* failed updates is not zero
C18_Witness ==
    /\ call.op = "sleep"
    /\ paused # None
    /\ Calibrated
    /\ _missing_headers_count > 0

\* C20: last_header_time is the time of the most recent successful parse: an
\* update whose three headers are present and parse sets it to the current
\* time, any other update leaves it unchanged.
C20_LastHeaderTimeOnSuccess ==
    [][UpdateCall(call') =>
          IF Valid[call'.headers]
          THEN _last_header_time' = now
          ELSE UNCHANGED _last_header_time]_vars

\* C19: whatever the constructor's arguments, construction succeeds with
\* safe_margin in [0.1, 0.95], min_rps_threshold >= 0.1 and
\* fallback_max_rpm >= 1: an argument outside its range is replaced by the
\* nearest bound (5.0 becomes 0.95), one inside is kept, and no later
\* operation changes the three values.
C19_ConfigClamped ==
    LET a_safe_margin == ctor_args[1]
        a_min_rps_threshold == ctor_args[2]
        a_fallback_max_rpm == ctor_args[3]
        lo == Rat(1, 10)
        hi == Rat(95, 100)
    IN  /\ RLeq(lo, safe_margin) /\ RLeq(safe_margin, hi)
        /\ RLeq(lo, min_rps_threshold)
        /\ fallback_max_rpm >= 1
        /\ RLess(hi, a_safe_margin) => safe_margin = hi
        /\ RLess(a_safe_margin, lo) => safe_margin = lo
        /\ RLeq(lo, a_safe_margin) /\ RLeq(a_safe_margin, hi) => safe_margin = a_safe_margin
        /\ RLess(a_min_rps_threshold, lo) => min_rps_threshold = lo
        /\ RLeq(lo, a_min_rps_threshold) => min_rps_threshold = a_min_rps_threshold
        /\ a_fallback_max_rpm < 1 => fallback_max_rpm = 1
        /\ a_fallback_max_rpm >= 1 => fallback_max_rpm = a_fallback_max_rpm

\* a limiter constructed with safe_margin 5.0, min_rps_threshold 0.05 and
\* fallback_max_rpm 0 holds 0.95, 0.1 and 1 after an update and a sleep()
C19_Witness ==
    /\ ctor_args = <<Rat(5, 1), Rat(1, 20), 0>>
    /\ config = <<Rat(95, 100), Rat(1, 10), 1>>
    /\ call.op = "sleep"
    /\ Calibrated

\* caller t has computed its pause in sleep() / wait() and not yet finished the pair
Computed(t) == task[t].pc \in {"l127", "paused", "returned"}

\* the limiter holds exactly the three values of the header map h
Holds(h) ==
    /\ _used = Some(Parsed[h].used.val)
    /\ _remaining = Some(Parsed[h].remaining.val)
    /\ _reset_seconds = Some(Parsed[h].reset.val)

\* each of used, remaining and reset_seconds that is present is the value
\* of one and the same header map among those the callers pass
FromSingleMap ==
    \E h \in TaskMaps :
        /\ _used = None \/ (Parsed[h].used.ok /\ _used = Some(Parsed[h].used.val))
        /\ _remaining = None
               \/ (Parsed[h].remaining.ok /\ _remaining = Some(Parsed[h].remaining.val))
        /\ _reset_seconds = None
               \/ (Parsed[h].reset.ok /\ _reset_seconds = Some(Parsed[h].reset.val))

\* C13: threads that run each update_from_headers -> sleep pair holding the
\* mutex: whenever no thread is in its critical section, used, remaining and
\* reset_seconds, where present, are from one header map; and the pause a
\* thread computes after passing a valid map is the decision function's
\* value for that map's three values.
C13_MutexSerialisesPairs ==
    regime = "locked" =>
        /\ lock = None => FromSingleMap
        /\ \A t \in Tasks :
              Computed(t) /\ Valid[task[t].headers] =>
                  /\ Holds(task[t].headers)
                  /\ task[t].sleep_time = Some(_calculate_sleep_time[1])

\* program points inside update_from_headers
Updating == {"l55", "l62", "l63", "l64", "l65", "l73"}

\* C14: coroutines of one event loop need no lock: while one of them runs
\* update_from_headers no other coroutine executes a statement, so an update
\* with valid headers has stored exactly its three values when it returns; and
\* every wait() computes its pause from a limiter state whose values are
\* from one header map, never a mixture of two.
C14_CooperativeAtomicity ==
    [][regime = "cooperative" =>
          \A t \in Tasks :
              /\ task[t].pc \in Updating =>
                     \A o \in Tasks \ {t} : task'[o].pc = task[o].pc
              /\ (task[t].pc = "l65" /\ task'[t].pc = "l125" /\ Valid[task[t].headers]) =>
                     /\ _used' = Some(Parsed[task[t].headers].used.val)
                     /\ _remaining' = Some(Parsed[task[t].headers].remaining.val)
                     /\ _reset_seconds' = Some(Parsed[task[t].headers].reset.val)
              /\ (task[t].pc = "l125" /\ task'[t].pc = "l127") =>
                     /\ FromSingleMap
                     /\ task'[t].sleep_time = Some(_calculate_sleep_time[1])]_vars

\* C16: every call of sleep() and of wait() returns: the pause it computes is a
\* finite number of seconds, and under fair progress of the clock, of running
\* code and of the scheduler a caller that has entered sleep() / wait() gets
\* to the method's return.
C16_EveryPauseReturns ==
    /\ [](\A t \in Tasks : task[t].sleep_time # None => task[t].sleep_time[1][2] # 0)
    /\ \A t \in Tasks : (task[t].pc = "l125") ~> (task[t].pc = "returned")

\* a caller is back from a pause that lasted some time
C16_Witness ==
    \E t \in Tasks :
        /\ task[t].pc = "returned"
        /\ task[t].slept # None
        /\ RLess(FromInt(0), task[t].slept[1])

\* C17: a pause in progress is honoured in full: the duration computed for it
\* stays what it was, the time slept plus the time left never falls below it,
\* and the caller leaves the pause only when it has slept that long, whatever
\* updates other callers make meanwhile.
C17_PauseHonouredInFull ==
    [][\A t \in Tasks :
          task[t].pc = "paused" =>
              /\ task'[t].sleep_time = task[t].sleep_time
              /\ task'[t].pc = "paused" =>
                     RLeq(task[t].sleep_time[1],
                          RAdd(task'[t].slept[1], task'[t].timer[1]))
              /\ task'[t].pc # "paused" =>
                     RLeq(task[t].sleep_time[1], task[t].slept[1])]_vars

\* a caller is back from a pause of 1.25 seconds, having slept them all, while
\* another caller's update has left the limiter in a state whose computed
\* sleep is 0
C17_Witness ==
    \E t \in Tasks :
        /\ task[t].pc = "returned"
        /\ task[t].sleep_time = Some(Rat(5, 4))
        /\ RLeq(Rat(5, 4), task[t].slept[1])
        /\ _calculate_sleep_time[1] = FromInt(0)

\* h1 and h2 carry the same values and differ at most in the letter case of
\* their header names
SameUpToCase(h1, h2) ==
    \E v \in CaseTriples : \E s1, s2 \in DOMAIN Spelling :
        /\ h1 = Spell(s1, v[1], v[2], v[3])
        /\ h2 = Spell(s2, v[1], v[2], v[3])

\* C21: header names are matched without regard to letter case: the step an
\* update_from_headers call makes with one header map is the step it makes,
\* from the same state, with every map that differs from it only in the case
\* of its header names (same used, remaining, reset_seconds and
\* missing_headers_count afterwards).
C21_HeaderNamesCaseInsensitive ==
    [][UpdateCall(call') =>
          \A h \in CaseMaps :
              SameUpToCase(call'.headers, h) => update_from_headers(h)]_vars

\* an update with upper-case header names has stored 595 / 5 / 60
C21_Witness ==
    /\ UpdateCall(call)
    /\ call.headers = Spell("upper", <<"5", "9", "5">>, <<"5">>, <<"6", "0">>)
    /\ _used = Some(595) /\ _remaining = Some(5) /\ _reset_seconds = Some(60)

\* C22: the sleep-time computation is a function of remaining, reset_seconds
\* and the configuration only: in every state of the runs of failed updates,
\* whatever missing_headers_count (below, at or above 10), used and
\* last_header_time are, it returns the fallback pause when remaining or
\* reset_seconds is absent and, for remaining 5 and reset_seconds 60, the one
\* throttling result of the configuration.
C22_DecisionIgnoresBookkeeping ==
    _calculate_sleep_time =
        IF _remaining = None \/ _reset_seconds = None
        THEN <<Rat(60, fallback_max_rpm), <<"fallback rate limiting">>>>
        ELSE IF _remaining = Some(5) /\ _reset_seconds = Some(60) /\ DefaultConfig
        THEN <<FromInt(15), <<"throttling to ", 7, " req/sec">>>>
        ELSE IF _remaining = Some(5) /\ _reset_seconds = Some(60)
                /\ config = <<Rat(95, 100), Rat(1, 10), 1>>
        THEN <<Rat(240, 19), <<"throttling to ", 8, " req/sec">>>>
        ELSE <<>>

\* after a run of failed updates past the warning threshold that also changed
\* used, sleep() still pauses for the 15 seconds of remaining 5, reset 60
C22_Witness ==
    /\ _missing_headers_count > 10
    /\ _used = Some(0) /\ _remaining = Some(5) /\ _reset_seconds = Some(60)
    /\ call.op = "sleep"
    /\ paused = Some([by |-> "time.sleep", seconds |-> FromInt(15)])

\* C25: the missing-header warning follows the run of failed updates: an
\* update that fails and brings missing_headers_count to 10 logs a warning,
\* one that fails and leaves it below 10 logs none, and an update whose three
\* headers parse logs none.
C25_MissingHeaderDiagnostic ==
    [][UpdateCall(call') =>
          LET warned == log' # None /\ log'[1].level = "warning"
              failed == ~Valid[call'.headers]
          IN  /\ failed /\ _missing_headers_count' = 10 => warned
              /\ failed /\ _missing_headers_count' < 10 => ~warned
              /\ ~failed => ~warned]_vars

\* the tenth failed update in a row has logged the warning
C25_Witness ==
    /\ UpdateCall(call)
    /\ ~Valid[call.headers]
    /\ _missing_headers_count = 10
    /\ log = Some([level |-> "warning", msg |-> "Missing rate limit headers"])

\* C23: throttling engages exactly below the floor: in every calibrated state
\* of every configuration, the computed sleep is positive if and only if
\* reset_seconds >= 2 and (remaining / reset_seconds) * safe_margin is below
\* min_rps_threshold.
C23_ThrottleExactlyBelowFloor ==
    Calibrated =>
        (RLess(FromInt(0), _calculate_sleep_time[1])
            <=> /\ _reset_seconds[1] >= 2
                /\ RLess(RMul(Rat(_remaining[1], _reset_seconds[1]), safe_margin),
                         min_rps_threshold))

\* C27: the computed sleep is never negative: 60 / fallback_max_rpm > 0 while
\* remaining or reset_seconds is absent, and between 0 and max(0,
\* reset_seconds) once both are stored.
C27_SleepWithinResetWindow ==
    LET sleep_time == _calculate_sleep_time[1]
    IN  /\ RLeq(FromInt(0), sleep_time)
        /\ ~Calibrated =>
               /\ sleep_time = Rat(60, fallback_max_rpm)
               /\ RLess(FromInt(0), sleep_time)
        /\ Calibrated =>
               RLeq(sleep_time,
                    FromInt(IF _reset_seconds[1] > 0 THEN _reset_seconds[1] ELSE 0))

\* with remaining 1 and reset_seconds 60 under the default margin and floor,
\* sleep() has paused for the full 60 seconds (1 / 0.0133 = 75, capped)
C27_Witness ==
    /\ _remaining = Some(1) /\ _reset_seconds = Some(60)
    /\ safe_margin = Rat(8, 10) /\ min_rps_threshold = FromInt(1)
    /\ call.op = "sleep"
    /\ paused = Some([by |-> "time.sleep", seconds |-> FromInt(60)])

\* C28: an exhausted quota always pauses: with remaining <= 0 (negative
\* values included) and reset_seconds >= 2 the computed sleep is
\* max(1, reset_seconds - 1), at least one second, with reason 'waiting for
\* rate limit reset', in every configuration.
C28_ExhaustedQuotaPauses ==
    (Calibrated /\ _remaining[1] <= 0 /\ _reset_seconds[1] >= 2) =>
        /\ _calculate_sleep_time =
               <<FromInt(IF _reset_seconds[1] - 1 > 1 THEN _reset_seconds[1] - 1 ELSE 1),
                 <<"waiting for rate limit reset">>>>
        /\ RLeq(FromInt(1), _calculate_sleep_time[1])

\* with remaining -1 and reset_seconds 2, wait() has paused for one second
C28_Witness ==
    /\ _remaining = Some(-1) /\ _reset_seconds = Some(2)
    /\ call.op = "wait"
    /\ paused = Some([by |-> "asyncio.sleep", seconds |-> FromInt(1)])

\* the integers the remaining values of DecisionMaps denote
DecisionRemainingInts == {int(v).val : v \in DecisionRemaining}

\* C29: more remaining quota never means a longer wait: for the stored
\* reset_seconds and configuration, the sleep computed for the stored
\* remaining >= 0 is at most the sleep computed for every smaller remaining
\* >= 0.
C29_MoreQuotaNeverLongerWait ==
    (Calibrated /\ _remaining[1] >= 0) =>
        \A r1 \in DecisionRemainingInts :
            (0 <= r1 /\ r1 <= _remaining[1]) =>
                RLeq(_calculate_sleep_time[1],
                     calculate_sleep_time(Some(r1), _reset_seconds)[1])

\* C26: sleep() and wait() emit one log record per pausing call: a warning
\* if and only if the computed duration is at least 5 seconds, a debug record
\* when it is positive and below 5, and no record when it is 0.
C26_OneLogRecordPerPause ==
    [][call'.op \in {"sleep", "wait"} =>
          LET sleep_time == _calculate_sleep_time[1]
              level == IF log' = None THEN "none" ELSE log'[1].level
          IN  /\ (level = "warning") <=> RLeq(FromInt(5), sleep_time)
              /\ (level = "debug") <=> /\ RLess(FromInt(0), sleep_time)
                                       /\ RLess(sleep_time, FromInt(5))
              /\ (level = "none") <=> sleep_time = FromInt(0)]_vars

\* an uncalibrated limiter with fallback_max_rpm 12 has slept exactly 5
\* seconds and logged a warning
C26_Witness ==
    /\ call.op = "sleep"
    /\ _remaining = None
    /\ paused = Some([by |-> "time.sleep", seconds |-> FromInt(5)])
    /\ log # None
    /\ log[1].level = "warning"

\* C30: between two successful update_from_headers calls the pacing decision
\* is frozen: once a valid header map has been stored, every step other than
\* an update from a valid map (sleep, wait, snapshot, a failed update, time
\* passing) leaves the computed (duration, reason) as it was.
C30_DecisionFrozenBetweenUpdates ==
    [][(valid_seen /\ ~(UpdateCall(call') /\ Valid[call'.headers])) =>
          calculate_sleep_time(_remaining', _reset_seconds') = _calculate_sleep_time]_vars

\* the pause the decision function gives for the values of the header map h
DecisionFor(h) ==
    calculate_sleep_time(Some(Parsed[h].remaining.val), Some(Parsed[h].reset.val))[1]

\* no caller is inside update_from_headers, yet used, remaining and
\* reset_seconds are not the three values of any one map the callers passed
MixedFields ==
    /\ \A t \in Tasks : task[t].pc \notin Updating
    /\ _used # None
    /\ Calibrated
    /\ ~\E h \in ThreadMaps : Holds(h)

\* some caller's pause was computed from a remaining and a reset_seconds that
\* no one map the callers passed holds
MixedComputation ==
    \E t \in Tasks :
        /\ Computed(t)
        /\ \A h \in ThreadMaps : task[t].sleep_time # Some(DecisionFor(h))

\* C24: the limiter is not thread-safe without external mutual exclusion:
\* threads passing two different valid header maps reach a state whose used,
\* remaining and reset_seconds come from different maps, and a pause computed
\* from remaining and reset_seconds of two different updates; such states
\* occur only when no mutex is held around the update -> sleep pair.
C24_MixingOnlyWithoutMutex ==
    (MixedFields \/ MixedComputation) => regime = "threads"

\* two threads without a mutex have interleaved their updates: the limiter
\* holds used 595 and remaining 5 of one map with reset_seconds 600 of the
\* other, and a thread has computed a pause of 150 s that neither map gives
C24_Witness ==
    /\ regime = "threads"
    /\ MixedFields
    /\ MixedComputation
    /\ _used = Some(595) /\ _remaining = Some(5) /\ _reset_seconds = Some(600)
    /\ \E t \in Tasks : task[t].sleep_time = Some(FromInt(150))

====
